---- MODULE Spec2Model ----
(***************************************************************************)
(* RIVA128 VGA register decoder (hw/display/riva128_vga.c).                *)
(*                                                                         *)
(* The model covers the address decoder (pci_riva128_ioport_read/write),   *)
(* the CRTC index/data mux with its two vendor indices                     *)
(* (riva128_ioport_read/write), the two I2C line booleans, the MMIO window *)
(* that exposes the decoder, the legacy port range that vga_init()         *)
(* registers for the primary variant, the secondary variant's reset hook   *)
(* and the fields listed in vmstate_riva128_pci.                           *)
(*                                                                         *)
(* The generic VGA core (vga_ioport_read, vga_ioport_write,                *)
(* vga_common_reset) lives in another file of the tree; it is modelled     *)
(* here as a register block: the CRTC index register, the CRTC register    *)
(* bank addressed through it, and one latch per other standard port.       *)
(***************************************************************************)
EXTENDS Integers, Sequences, FiniteSets

VARIABLES
    s,      \* PCIRIVA128State: [vga |-> VGACommonState, riva128 |-> [i2c |-> [sda, scl]]]
    last,   \* the last operation performed on the device and what it returned
    vmsd,   \* the persisted snapshot written by the last save, or NoSnapshot
    rt      \* save / reset / load round trip in progress: [stage, at_save]

vars == <<s, last, vmsd, rt>>

(***************************************************************************)
(* Program constants (decimal; the source writes them in hexadecimal).     *)
(***************************************************************************)
VGA_BASE == 960
PCI_RIVA128_IOPORT_OFFSET == 1024
PCI_RIVA128_IOPORT_SIZE == 32
CRTC_INDEX_PORT == 980
CRTC_DATA_PORT == 981
I2C_READ_INDEX == 62
I2C_WRITE_INDEX == 63
SCL_WRITE_MASK == 32
SDA_WRITE_MASK == 16
SDA_READ_SHIFT == 3
SCL_READ_SHIFT == 2

(***************************************************************************)
(* Bounds of the model.  The handlers are total over bytes; the actions    *)
(* draw the bytes they write from InputBytes, the claims' formulas         *)
(* quantify over every byte.                                               *)
(***************************************************************************)
MaxNibble == 3

Byte == 0..255

\* bytes the actions write to data registers: 0x00, 0x10, 0x20, 0x30, that is
\* every combination of the SDA and SCL bits
InputBytes == {16 * k : k \in 0..MaxNibble}

\* bytes the actions write to the CRTC index register
IndexBytes == {0, I2C_READ_INDEX, I2C_WRITE_INDEX}

\* window offsets the actions read: 0x3d3, 0x3d4, 0x3d5, 0x3da
ReadOffsets == {19, 20, 21, 26}

\* window offsets the actions write: 0x3d3, 0x3d4, 0x3d5
WriteOffsets == {19, 20, 21}

\* legacy ports the actions access: 0x3d4, 0x3d5
PortOffsets == {20, 21}

\* every offset of the window
WindowOffsets == 0..(PCI_RIVA128_IOPORT_SIZE - 1)

AccessSizes == {1, 2}

(***************************************************************************)
(* Integer helpers for C's bit operators on unsigned values.               *)
(***************************************************************************)
Pow2(n) == 2 ^ n

Bit(v, n) == (v \div Pow2(n)) % 2

\* the operands are bytes and the shifts at most 8: no uint64_t result wraps
Shl(v, n) == v * Pow2(n)

Shr(v, n) == v \div Pow2(n)

RECURSIVE BitAnd(_, _)
BitAnd(a, b) ==
    IF a = 0 \/ b = 0 THEN 0
    ELSE (IF a % 2 = 1 /\ b % 2 = 1 THEN 1 ELSE 0) + 2 * BitAnd(a \div 2, b \div 2)

RECURSIVE BitOr(_, _)
BitOr(a, b) ==
    IF a = 0 THEN b
    ELSE IF b = 0 THEN a
    ELSE (IF a % 2 = 1 \/ b % 2 = 1 THEN 1 ELSE 0) + 2 * BitOr(a \div 2, b \div 2)

\* C's conversion of an integer to bool
ToBool(x) == x # 0

\* C's promotion of a bool to int
FromBool(b) == IF b THEN 1 ELSE 0

\* a zero-initialised uint8_t array, kept as the map of its non-zero entries
ZeroArray == [i \in {} |-> 0]

ArrayGet(a, i) == IF i \in DOMAIN a THEN a[i] ELSE 0

ArraySet(a, i, v) ==
    IF v = 0 THEN [x \in DOMAIN a \ {i} |-> a[x]]
    ELSE [x \in DOMAIN a \cup {i} |-> IF x = i THEN v ELSE a[x]]

(***************************************************************************)
(* Generic VGA core (vga.c, outside this file): a register block with the  *)
(* CRTC index register at 0x3d4, the CRTC bank behind 0x3d5 and one latch  *)
(* per other port of the legacy range it decodes.                          *)
(***************************************************************************)
\* ports of the generic core other than the CRTC pair: 0x3c0..0x3cf, 0x3da
VgaLatchPorts == (960..975) \cup {986}

\* vga_common_init / vga_common_reset: index 0 selected, every register 0
vga_common_reset(vga) ==
    [cr_index |-> 0, cr |-> ZeroArray, reg |-> ZeroArray]

\* the value the core returns for a port, and the core afterwards
vga_ioport_read(vga, addr) ==
    [ret |-> IF addr = CRTC_INDEX_PORT THEN vga.cr_index
             ELSE IF addr = CRTC_DATA_PORT THEN ArrayGet(vga.cr, vga.cr_index)
             ELSE IF addr \in VgaLatchPorts THEN ArrayGet(vga.reg, addr)
             ELSE 0,
     vga |-> vga]

\* the core after a byte is written to a port
vga_ioport_write(vga, addr, val) ==
    IF addr = CRTC_INDEX_PORT THEN [vga EXCEPT !.cr_index = val]
    ELSE IF addr = CRTC_DATA_PORT THEN
        [vga EXCEPT !.cr = ArraySet(vga.cr, vga.cr_index, val)]
    ELSE IF addr \in VgaLatchPorts THEN
        [vga EXCEPT !.reg = ArraySet(vga.reg, addr, val)]
    ELSE vga

\* one recorded call into the generic core
VgaCall(fn, addr, val) == [fn |-> fn, addr |-> addr, val |-> val]

(***************************************************************************)
(* riva128_ioport_read / riva128_ioport_write: one byte at one port.       *)
(* Each returns the device afterwards and the calls it made into the core. *)
(***************************************************************************)
\* case labels that go straight to vga_ioport_read
ReadDelegatedPorts == (960..970) \cup {972, 974, 975, CRTC_INDEX_PORT, 986}

\* the whole block 0x3c0..0x3cf delegated, 0x3cb and 0x3cd included
WriteDelegatedPorts_whole_block == (960..975) \cup {CRTC_INDEX_PORT, 986}

\* case labels that go straight to vga_ioport_write
WriteDelegatedPorts == (960..970) \cup {972, 974, 975, CRTC_INDEX_PORT, 986}

\* a read that also releases both lines
riva128_i2c_read_clearing(d) ==
    [ret   |-> BitOr(Shl(FromBool(d.riva128.i2c.sda), SDA_READ_SHIFT),
                     Shl(FromBool(d.riva128.i2c.scl), SCL_READ_SHIFT)),
     s     |-> [d EXCEPT !.riva128.i2c.sda = FALSE, !.riva128.i2c.scl = FALSE],
     calls |-> << >>]

\* ret = (s->riva128.i2c.sda << 3) | (s->riva128.i2c.scl << 2)
riva128_i2c_read(d) ==
    [ret   |-> BitOr(Shl(FromBool(d.riva128.i2c.sda), SDA_READ_SHIFT),
                     Shl(FromBool(d.riva128.i2c.scl), SCL_READ_SHIFT)),
     s     |-> d,
     calls |-> << >>]

\* the two masks exchanged
riva128_i2c_write_swapped(d, val) ==
    [s     |-> [d EXCEPT !.riva128.i2c.scl = ToBool(BitAnd(val, SDA_WRITE_MASK)),
                         !.riva128.i2c.sda = ToBool(BitAnd(val, SCL_WRITE_MASK))],
     calls |-> << >>]

\* a line once raised stays raised
riva128_i2c_write_sticky(d, val) ==
    [s     |-> [d EXCEPT !.riva128.i2c.scl =
                             d.riva128.i2c.scl \/ ToBool(BitAnd(val, SCL_WRITE_MASK)),
                         !.riva128.i2c.sda =
                             d.riva128.i2c.sda \/ ToBool(BitAnd(val, SDA_WRITE_MASK))],
     calls |-> << >>]

\* s->riva128.i2c.scl = val & 0x20; s->riva128.i2c.sda = val & 0x10
riva128_i2c_write(d, val) ==
    [s     |-> [d EXCEPT !.riva128.i2c.scl = ToBool(BitAnd(val, SCL_WRITE_MASK)),
                         !.riva128.i2c.sda = ToBool(BitAnd(val, SDA_WRITE_MASK))],
     calls |-> << >>]

\* ret = vga_ioport_read(&s->vga, addr)
riva128_vga_read(d, addr) ==
    LET r == vga_ioport_read(d.vga, addr)
    IN  [ret   |-> r.ret,
         s     |-> [d EXCEPT !.vga = r.vga],
         calls |-> << VgaCall("vga_ioport_read", addr, 0) >>]

\* vga_ioport_write(&s->vga, addr, val)
riva128_vga_write(d, addr, val) ==
    [s     |-> [d EXCEPT !.vga = vga_ioport_write(d.vga, addr, val)],
     calls |-> << VgaCall("vga_ioport_write", addr, val) >>]

\* the data port answers 0 for every index but the read index
riva128_ioport_read_zero_default(d, addr) ==
    IF addr \in ReadDelegatedPorts THEN riva128_vga_read(d, addr)
    ELSE IF addr = CRTC_DATA_PORT THEN
        IF d.vga.cr_index = I2C_READ_INDEX THEN riva128_i2c_read(d)
        ELSE [ret |-> 0, s |-> d, calls |-> << >>]
    ELSE [ret |-> 0, s |-> d, calls |-> << >>]

\* both vendor indices answer a read with the bus lines
riva128_ioport_read_both_indices(d, addr) ==
    IF addr \in ReadDelegatedPorts THEN riva128_vga_read(d, addr)
    ELSE IF addr = CRTC_DATA_PORT THEN
        IF d.vga.cr_index \in {I2C_READ_INDEX, I2C_WRITE_INDEX}
        THEN riva128_i2c_read(d)
        ELSE riva128_vga_read(d, addr)
    ELSE [ret |-> 0, s |-> d, calls |-> << >>]

riva128_ioport_read(d, addr) ==
    IF addr \in ReadDelegatedPorts THEN riva128_vga_read(d, addr)
    ELSE IF addr = CRTC_DATA_PORT THEN
        IF d.vga.cr_index = I2C_READ_INDEX THEN riva128_i2c_read(d)
        ELSE riva128_vga_read(d, addr)
    ELSE [ret |-> 0, s |-> d, calls |-> << >>]

\* both vendor indices drive the lines on a write
riva128_ioport_write_both_indices(d, addr, val8) ==
    LET val == val8 % 256
    IN  IF addr \in WriteDelegatedPorts THEN riva128_vga_write(d, addr, val)
        ELSE IF addr = CRTC_DATA_PORT THEN
            IF d.vga.cr_index \in {I2C_READ_INDEX, I2C_WRITE_INDEX}
            THEN riva128_i2c_write(d, val)
            ELSE riva128_vga_write(d, addr, val)
        ELSE [s |-> d, calls |-> << >>]

\* under the write index the byte drives the lines and is also handed to
\* the generic core
riva128_ioport_write_and_delegate(d, addr, val8) ==
    LET val == val8 % 256
    IN  IF addr \in WriteDelegatedPorts THEN riva128_vga_write(d, addr, val)
        ELSE IF addr = CRTC_DATA_PORT THEN
            IF d.vga.cr_index = I2C_WRITE_INDEX
            THEN LET w == riva128_i2c_write(d, val)
                 IN  riva128_vga_write(w.s, addr, val)
            ELSE riva128_vga_write(d, addr, val)
        ELSE [s |-> d, calls |-> << >>]

\* val arrives as uint8_t
riva128_ioport_write(d, addr, val8) ==
    LET val == val8 % 256
    IN  IF addr \in WriteDelegatedPorts THEN riva128_vga_write(d, addr, val)
        ELSE IF addr = CRTC_DATA_PORT THEN
            IF d.vga.cr_index = I2C_WRITE_INDEX THEN riva128_i2c_write(d, val)
            ELSE riva128_vga_write(d, addr, val)
        ELSE [s |-> d, calls |-> << >>]

(***************************************************************************)
(* pci_riva128_ioport_read / pci_riva128_ioport_write: the MemoryRegionOps *)
(* handlers; addr is the offset inside the 32-port window.                 *)
(***************************************************************************)
\* the two halves of a word read put in the wrong bytes
pci_riva128_ioport_read_swapped(d, addr, size) ==
    IF size = 1 THEN riva128_ioport_read(d, addr + VGA_BASE)
    ELSE IF size = 2 THEN
        LET lo == riva128_ioport_read(d, addr + VGA_BASE)
            hi == riva128_ioport_read(lo.s, addr + VGA_BASE + 1)
        IN  [ret   |-> BitOr(hi.ret, Shl(lo.ret, 8)),
             s     |-> hi.s,
             calls |-> lo.calls \o hi.calls]
    ELSE [ret |-> 0, s |-> d, calls |-> << >>]

\* a width that is neither 1 nor 2 is served as a byte access
pci_riva128_ioport_read_default_byte(d, addr, size) ==
    IF size = 2 THEN
        LET lo == riva128_ioport_read(d, addr + VGA_BASE)
            hi == riva128_ioport_read(lo.s, addr + VGA_BASE + 1)
        IN  [ret   |-> BitOr(lo.ret, Shl(hi.ret, 8)),
             s     |-> hi.s,
             calls |-> lo.calls \o hi.calls]
    ELSE riva128_ioport_read(d, addr + VGA_BASE)

pci_riva128_ioport_read(d, addr, size) ==
    IF size = 1 THEN riva128_ioport_read(d, addr + VGA_BASE)
    ELSE IF size = 2 THEN
        LET lo == riva128_ioport_read(d, addr + VGA_BASE)
            hi == riva128_ioport_read(lo.s, addr + VGA_BASE + 1)
        IN  [ret   |-> BitOr(lo.ret, Shl(hi.ret, 8)),
             s     |-> hi.s,
             calls |-> lo.calls \o hi.calls]
    ELSE [ret |-> 0, s |-> d, calls |-> << >>]

\* the high byte of a word written before the low byte
pci_riva128_ioport_write_high_first(d, addr, val, size) ==
    IF size = 1 THEN riva128_ioport_write(d, addr + VGA_BASE, val)
    ELSE IF size = 2 THEN
        LET hi == riva128_ioport_write(d, addr + VGA_BASE + 1,
                                       BitAnd(Shr(val, 8), 255))
            lo == riva128_ioport_write(hi.s, addr + VGA_BASE, BitAnd(val, 255))
        IN  [s |-> lo.s, calls |-> hi.calls \o lo.calls]
    ELSE [s |-> d, calls |-> << >>]

\* the high byte of a word is dropped
pci_riva128_ioport_write_low_only(d, addr, val, size) ==
    IF size = 1 THEN riva128_ioport_write(d, addr + VGA_BASE, val)
    ELSE IF size = 2 THEN
        riva128_ioport_write(d, addr + VGA_BASE, BitAnd(val, 255))
    ELSE [s |-> d, calls |-> << >>]

\* the high byte of a word at the last port wraps to the first port
pci_riva128_ioport_write_wrapping(d, addr, val, size) ==
    IF size = 1 THEN riva128_ioport_write(d, addr + VGA_BASE, val)
    ELSE IF size = 2 THEN
        LET lo == riva128_ioport_write(d, addr + VGA_BASE, BitAnd(val, 255))
            hi == riva128_ioport_write(
                      lo.s, VGA_BASE + ((addr + 1) % PCI_RIVA128_IOPORT_SIZE),
                      BitAnd(Shr(val, 8), 255))
        IN  [s |-> hi.s, calls |-> lo.calls \o hi.calls]
    ELSE [s |-> d, calls |-> << >>]

pci_riva128_ioport_write(d, addr, val, size) ==
    IF size = 1 THEN riva128_ioport_write(d, addr + VGA_BASE, val)
    ELSE IF size = 2 THEN
        LET lo == riva128_ioport_write(d, addr + VGA_BASE, BitAnd(val, 255))
            hi == riva128_ioport_write(lo.s, addr + VGA_BASE + 1,
                                       BitAnd(Shr(val, 8), 255))
        IN  [s |-> hi.s, calls |-> lo.calls \o hi.calls]
    ELSE [s |-> d, calls |-> << >>]

(***************************************************************************)
(* The MMIO window: pci_riva128_ioport_ops registered over                 *)
(* PCI_RIVA128_IOPORT_SIZE bytes at PCI_RIVA128_IOPORT_OFFSET of the BAR.  *)
(* The handler receives the offset inside the window.                      *)
(***************************************************************************)
InMmioWindow(a) ==
    /\ a >= PCI_RIVA128_IOPORT_OFFSET
    /\ a < PCI_RIVA128_IOPORT_OFFSET + PCI_RIVA128_IOPORT_SIZE

mmio_read(d, a, size) ==
    pci_riva128_ioport_read(d, a - PCI_RIVA128_IOPORT_OFFSET, size)

mmio_write(d, a, val, size) ==
    pci_riva128_ioport_write(d, a - PCI_RIVA128_IOPORT_OFFSET, val, size)

(***************************************************************************)
(* The legacy port range of the primary variant: pci_std_riva128_realize   *)
(* hands the I/O address space to vga_init(), so the ports are served by   *)
(* the generic core's own handlers, byte by byte, low address first.       *)
(***************************************************************************)
portio_read(d, port, size) ==
    IF size = 1 THEN riva128_vga_read(d, port)
    ELSE
        LET lo == riva128_vga_read(d, port)
            hi == riva128_vga_read(lo.s, port + 1)
        IN  [ret   |-> BitOr(lo.ret, Shl(hi.ret, 8)),
             s     |-> hi.s,
             calls |-> lo.calls \o hi.calls]

portio_write(d, port, val, size) ==
    IF size = 1 THEN riva128_vga_write(d, port, val % 256)
    ELSE
        LET lo == riva128_vga_write(d, port, BitAnd(val, 255))
            hi == riva128_vga_write(lo.s, port + 1, BitAnd(Shr(val, 8), 255))
        IN  [s |-> hi.s, calls |-> lo.calls \o hi.calls]

(***************************************************************************)
(* Lifecycle: the secondary variant's reset hook and the persisted fields. *)
(***************************************************************************)
\* vga_common_reset(&d->vga), and nothing else
pci_secondary_riva128_reset(d) ==
    [d EXCEPT !.vga = vga_common_reset(d.vga)]

\* vmstate_riva128_pci lists the members dev (PCI configuration space, not
\* modelled) and riva128; the member vga is not listed
vmstate_save(d) == [valid |-> TRUE, riva128 |-> d.riva128]

vmstate_load(d, snap) == [d EXCEPT !.riva128 = snap.riva128]

(***************************************************************************)
(* State machine.                                                          *)
(***************************************************************************)
\* the object is allocated zeroed and vga_common_init() sets up the core
InitDevice ==
    [vga     |-> vga_common_reset([cr_index |-> 0]),
     riva128 |-> [i2c |-> [sda |-> FALSE, scl |-> FALSE]]]

NoSnapshot == [valid |-> FALSE, riva128 |-> InitDevice.riva128]

RtIdle == [stage |-> 0, at_save |-> InitDevice]

Op(op, iface, addr, size, val, ret, calls) ==
    [op |-> op, iface |-> iface, addr |-> addr, size |-> size,
     val |-> val, ret |-> ret, calls |-> calls]

Init ==
    /\ s = InitDevice
    /\ last = Op("init", "none", 0, 0, 0, 0, << >>)
    /\ vmsd = NoSnapshot
    /\ rt = RtIdle

\* values the actions write: one byte, or two bytes packed little-endian
InputValues(size) ==
    LET bytes == InputBytes \cup IndexBytes
    IN  IF size = 1 THEN bytes
        ELSE {lo + 256 * hi : lo \in bytes, hi \in bytes}

\* the byte of a write that lands on the CRTC index register, if any
IndexByteOK(off, val, size) ==
    /\ (off + VGA_BASE = CRTC_INDEX_PORT) => (val % 256) \in IndexBytes
    /\ (off + VGA_BASE # CRTC_INDEX_PORT) => (val % 256) \in InputBytes
    /\ (size = 2 /\ off + VGA_BASE + 1 = CRTC_INDEX_PORT)
            => (val \div 256) \in IndexBytes
    /\ (size = 2 /\ off + VGA_BASE + 1 # CRTC_INDEX_PORT)
            => (val \div 256) \in InputBytes

MmioRead(off, size) ==
    LET r == mmio_read(s, PCI_RIVA128_IOPORT_OFFSET + off, size)
    IN  /\ s' = r.s
        /\ last' = Op("read", "mmio", off, size, 0, r.ret, r.calls)
        /\ rt' = RtIdle
        /\ UNCHANGED vmsd

MmioWrite(off, val, size) ==
    LET r == mmio_write(s, PCI_RIVA128_IOPORT_OFFSET + off, val, size)
    IN  /\ IndexByteOK(off, val, size)
        /\ s' = r.s
        /\ last' = Op("write", "mmio", off, size, val, 0, r.calls)
        /\ rt' = RtIdle
        /\ UNCHANGED vmsd

PortRead(off, size) ==
    LET r == portio_read(s, VGA_BASE + off, size)
    IN  /\ s' = r.s
        /\ last' = Op("read", "pio", off, size, 0, r.ret, r.calls)
        /\ rt' = RtIdle
        /\ UNCHANGED vmsd

PortWrite(off, val, size) ==
    LET r == portio_write(s, VGA_BASE + off, val, size)
    IN  /\ IndexByteOK(off, val, size)
        /\ s' = r.s
        /\ last' = Op("write", "pio", off, size, val, 0, r.calls)
        /\ rt' = RtIdle
        /\ UNCHANGED vmsd

\* dc->reset of the secondary variant
Reset ==
    /\ s' = pci_secondary_riva128_reset(s)
    /\ last' = Op("reset", "none", 0, 0, 0, 0, << >>)
    /\ rt' = IF rt.stage = 1 THEN [rt EXCEPT !.stage = 2] ELSE RtIdle
    /\ UNCHANGED vmsd

\* dc->vmsd: the device's fields are written out
Save ==
    /\ vmsd' = vmstate_save(s)
    /\ last' = Op("save", "none", 0, 0, 0, 0, << >>)
    /\ rt' = [stage |-> 1, at_save |-> s]
    /\ UNCHANGED s

\* dc->vmsd: the fields of the last snapshot are read back
Load ==
    /\ vmsd.valid
    /\ s' = vmstate_load(s, vmsd)
    /\ last' = Op("load", "none", 0, 0, 0, 0, << >>)
    /\ rt' = IF rt.stage = 2 THEN [rt EXCEPT !.stage = 3] ELSE RtIdle
    /\ UNCHANGED vmsd

\* the register decoder behind the MMIO window (either variant)
Next ==
    \/ \E off \in ReadOffsets, size \in AccessSizes : MmioRead(off, size)
    \/ \E off \in WriteOffsets, size \in AccessSizes :
           \E val \in InputValues(size) : MmioWrite(off, val, size)

Spec == Init /\ [][Next]_vars

\* the secondary variant: byte accesses through the MMIO window, the reset
\* hook, save and load
NextSecondary ==
    \/ \E off \in ReadOffsets : MmioRead(off, 1)
    \/ \E off \in WriteOffsets : \E val \in InputValues(1) : MmioWrite(off, val, 1)
    \/ Reset
    \/ Save
    \/ Load

SpecSecondary == Init /\ [][NextSecondary]_vars

\* the primary variant: byte accesses through the MMIO window and through
\* the legacy ports; no reset hook
NextPrimary ==
    \/ \E off \in ReadOffsets : MmioRead(off, 1)
    \/ \E off \in WriteOffsets : \E val \in InputValues(1) : MmioWrite(off, val, 1)
    \/ \E off \in PortOffsets : PortRead(off, 1)
    \/ \E off \in PortOffsets : \E val \in InputValues(1) : PortWrite(off, val, 1)

SpecPrimary == Init /\ [][NextPrimary]_vars

\* window offsets at which the handlers are called directly: 0x3d4, 0x3d5
\* and 0x3df, the last port of the window
DecoderOffsets == {20, 21, 31}

\* widths the handlers are called with: the two they decode and one they do
\* not
DecoderSizes == {1, 2, 4}

\* values the handlers are called with: two packed bytes for a word, one
\* byte for the other widths
DecoderValues(size) == IF size = 2 THEN InputValues(2) ELSE InputValues(1)

\* pci_riva128_ioport_read called with (addr, size) as given
DecoderRead(off, size) ==
    LET r == pci_riva128_ioport_read(s, off, size)
    IN  /\ s' = r.s
        /\ last' = Op("read", "decoder", off, size, 0, r.ret, r.calls)
        /\ rt' = RtIdle
        /\ UNCHANGED vmsd

\* pci_riva128_ioport_write called with (addr, val, size) as given
DecoderWrite(off, val, size) ==
    LET r == pci_riva128_ioport_write(s, off, val, size)
    IN  /\ IndexByteOK(off, val, size)
        /\ s' = r.s
        /\ last' = Op("write", "decoder", off, size, val, 0, r.calls)
        /\ rt' = RtIdle
        /\ UNCHANGED vmsd

\* the two handlers as functions of their arguments, whatever the caller
NextDecoder ==
    \/ \E off \in DecoderOffsets, size \in DecoderSizes : DecoderRead(off, size)
    \/ \E off \in DecoderOffsets, size \in DecoderSizes :
           \E val \in DecoderValues(size) : DecoderWrite(off, val, size)

SpecDecoder == Init /\ [][NextDecoder]_vars

(***************************************************************************)
(* Claims about the register decoder.                                      *)
(***************************************************************************)
IndexOffset == CRTC_INDEX_PORT - VGA_BASE

DataOffset == CRTC_DATA_PORT - VGA_BASE

\* the handlers as the window delivers an access at a window offset
WinRead(d, off, size) == mmio_read(d, PCI_RIVA128_IOPORT_OFFSET + off, size)

WinWrite(d, off, val, size) ==
    mmio_write(d, PCI_RIVA128_IOPORT_OFFSET + off, val, size)

Clock(d) == d.riva128.i2c.scl

Data(d) == d.riva128.i2c.sda

\* (data << 3) | (clock << 2) for the lines a written byte v asks for
ExpectedReadback(v) == 8 * Bit(v, 4) + 4 * Bit(v, 5)

\* (data << 3) | (clock << 2) for the lines of device d
Readback(d) == 8 * FromBool(Data(d)) + 4 * FromBool(Clock(d))

LastIs(op, off, size) ==
    /\ last.op = op
    /\ last.iface = "mmio"
    /\ last.addr = off
    /\ last.size = size

\* `last` only records how the device state s was reached.  Every reachable
\* s is also the state after a byte read of port 0x3d3, which no handler
\* decodes and which therefore changes nothing, so a check that quantifies
\* over many inputs and reads only s is evaluated there: once per device
\* state instead of once per (device state, last operation).
AtDeviceState == LastIs("read", 19, 1)

\* bytes with every combination of bits 5 and 4, with and without other bits
ProbeBytes == {0, 16, 32, 48, 62, 63, 207, 223, 239, 255}

\* bytes the two halves of a probed word are drawn from
WordBytes == {0, 48, 62, 63, 255}

\* the addresses the decoder recognises: 0x3c0..0x3ca, 0x3cc, 0x3ce, 0x3cf,
\* 0x3d4, 0x3d5, 0x3da
RecognizedPorts == (960..970) \cup {972, 974, 975, 980, 981, 986}

UnknownOffsets == {off \in WindowOffsets : (VGA_BASE + off) \notin RecognizedPorts}

\* C1: with the write index 0x3f selected, a size-1 write of any byte v to
\* the data port sets clock = bit 5 of v and data = bit 4 of v; selecting the
\* read index 0x3e and reading the data port then returns
\* (data << 3) | (clock << 2), a value in {0, 4, 8, 12}.
C1_WriteThenReadBack ==
    /\ (AtDeviceState /\ s.vga.cr_index = I2C_WRITE_INDEX) =>
          \A v \in Byte :
              LET w   == WinWrite(s, DataOffset, v, 1).s
                  sel == WinWrite(w, IndexOffset, I2C_READ_INDEX, 1).s
                  r   == WinRead(sel, DataOffset, 1)
              IN  /\ Clock(w) = (Bit(v, 5) = 1)
                  /\ Data(w) = (Bit(v, 4) = 1)
                  /\ r.ret = ExpectedReadback(v)
                  /\ r.ret \in {0, 4, 8, 12}
    /\ (LastIs("write", DataOffset, 1) /\ s.vga.cr_index = I2C_WRITE_INDEX) =>
          /\ Clock(s) = (Bit(last.val, 5) = 1)
          /\ Data(s) = (Bit(last.val, 4) = 1)
    /\ (LastIs("read", DataOffset, 1) /\ s.vga.cr_index = I2C_READ_INDEX) =>
          /\ last.ret = Readback(s)
          /\ last.ret \in {0, 4, 8, 12}

\* a read at the read index returned 4: clock alone had been raised by a
\* write of 0x20 at the write index
C1_Witness ==
    /\ LastIs("read", DataOffset, 1)
    /\ s.vga.cr_index = I2C_READ_INDEX
    /\ last.ret = 4
    /\ Clock(s) /\ ~Data(s)

\* C2: after the device reset both bus lines are false, so selecting the
\* read index and reading the data port returns 0.
C2_ResetClearsBus ==
    last.op = "reset" =>
        /\ ~Clock(s)
        /\ ~Data(s)
        /\ WinRead(WinWrite(s, IndexOffset, I2C_READ_INDEX, 1).s,
                   DataOffset, 1).ret = 0

\* C3: a size-2 write of w at offset a is the size-1 write of w & 0xff at a
\* followed by the size-1 write of (w >> 8) & 0xff at a + 1; one size-2
\* write of (v << 8) | 0x3f at the index port leaves index 0x3f selected and
\* sets clock = bit 5 of v, data = bit 4 of v, whatever index was selected.
C3_WordWriteIsLowThenHigh ==
    /\ AtDeviceState =>
          \A off \in WindowOffsets, lo \in WordBytes, hi \in WordBytes :
              LET w == WinWrite(s, off, lo + 256 * hi, 2)
                  a == WinWrite(s, off, lo, 1)
                  b == WinWrite(a.s, off + 1, hi, 1)
              IN  /\ w.s = b.s
                  /\ w.calls = a.calls \o b.calls
    /\ AtDeviceState =>
          \A v \in Byte :
              LET w == WinWrite(s, IndexOffset, 256 * v + I2C_WRITE_INDEX, 2).s
              IN  /\ w.vga.cr_index = I2C_WRITE_INDEX
                  /\ Clock(w) = (Bit(v, 5) = 1)
                  /\ Data(w) = (Bit(v, 4) = 1)
                  /\ w.vga.cr = s.vga.cr
    /\ (LastIs("write", IndexOffset, 2) /\ last.val % 256 = I2C_WRITE_INDEX) =>
          /\ s.vga.cr_index = I2C_WRITE_INDEX
          /\ Clock(s) = (Bit(last.val \div 256, 5) = 1)
          /\ Data(s) = (Bit(last.val \div 256, 4) = 1)

\* the word 0x203f was written at the index port: index 0x3f, clock alone
C3_Witness ==
    /\ LastIs("write", IndexOffset, 2)
    /\ last.val = 256 * 32 + I2C_WRITE_INDEX
    /\ s.vga.cr_index = I2C_WRITE_INDEX
    /\ Clock(s) /\ ~Data(s)

\* C4: a size-2 read at offset a reads a first and a + 1 second and returns
\* low | (high << 8), nothing above bit 15; at the index port with index
\* 0x3e selected that is 0x3e | (((data << 3) | (clock << 2)) << 8).
C4_WordReadIsLowThenHigh ==
    /\ AtDeviceState =>
          \A off \in WindowOffsets :
              LET w  == WinRead(s, off, 2)
                  lo == WinRead(s, off, 1)
                  hi == WinRead(lo.s, off + 1, 1)
              IN  /\ lo.ret < 256 /\ hi.ret < 256
                  /\ w.ret = lo.ret + 256 * hi.ret
                  /\ w.ret < 65536
                  /\ w.calls = lo.calls \o hi.calls
                  /\ w.s = hi.s
    /\ (AtDeviceState /\ s.vga.cr_index = I2C_READ_INDEX) =>
          WinRead(s, IndexOffset, 2).ret = I2C_READ_INDEX + 256 * Readback(s)
    /\ (AtDeviceState /\ s.vga.cr_index # I2C_READ_INDEX) =>
          WinRead(s, IndexOffset, 2).calls =
              << VgaCall("vga_ioport_read", CRTC_INDEX_PORT, 0),
                 VgaCall("vga_ioport_read", CRTC_DATA_PORT, 0) >>
    /\ (LastIs("read", IndexOffset, 2) /\ s.vga.cr_index = I2C_READ_INDEX) =>
          last.ret = I2C_READ_INDEX + 256 * Readback(s)

\* a word read at the index port returned 0x0c3e: index 0x3e, both lines high
C4_Witness ==
    /\ LastIs("read", IndexOffset, 2)
    /\ s.vga.cr_index = I2C_READ_INDEX
    /\ last.ret = I2C_READ_INDEX + 256 * 12

\* C5: at every address of the window outside the recognised set a size-1
\* read returns 0 and a size-1 write changes nothing and is not delegated.
C5_UnknownPortsDefault ==
    /\ AtDeviceState =>
          \A off \in UnknownOffsets :
              /\ WinRead(s, off, 1) = [ret |-> 0, s |-> s, calls |-> << >>]
              /\ \A v \in Byte :
                     WinWrite(s, off, v, 1) = [s |-> s, calls |-> << >>]
    /\ (last.iface = "mmio" /\ last.size = 1 /\ last.addr \in UnknownOffsets) =>
          /\ last.calls = << >>
          /\ last.ret = 0

\* 0x30 was written to 0x3d3 while the write index was selected: nothing was
\* delegated and the lines stayed low
C5_Witness ==
    /\ LastIs("write", 19, 1)
    /\ last.val = 48
    /\ last.calls = << >>
    /\ s.vga.cr_index = I2C_WRITE_INDEX
    /\ ~Clock(s) /\ ~Data(s)

\* C6 as claimed: under every selected index other than 0x3e and 0x3f a read
\* of the data port returns 0 and a write to it leaves clock and data alone.
C6_UnknownIndexReadsZero ==
    (s.vga.cr_index \notin {I2C_READ_INDEX, I2C_WRITE_INDEX}) =>
        /\ WinRead(s, DataOffset, 1).ret = 0
        /\ \A v \in ProbeBytes :
               WinWrite(s, DataOffset, v, 1).s.riva128 = s.riva128

\* C6 as amended: under every selected index other than 0x3e and 0x3f a read
\* of the data port returns what the generic VGA core returns for that index
\* (the register's content, 0 only while it holds 0), and a write is handed
\* to the generic core and leaves clock and data alone.
C6_UnknownIndexDelegates ==
    /\ (AtDeviceState /\ s.vga.cr_index \notin {I2C_READ_INDEX, I2C_WRITE_INDEX}) =>
          /\ WinRead(s, DataOffset, 1) =
                 [ret   |-> vga_ioport_read(s.vga, CRTC_DATA_PORT).ret,
                  s     |-> s,
                  calls |-> << VgaCall("vga_ioport_read", CRTC_DATA_PORT, 0) >>]
          /\ \A v \in Byte :
                 LET w == WinWrite(s, DataOffset, v, 1)
                 IN  /\ w.s.riva128 = s.riva128
                     /\ w.s.vga = vga_ioport_write(s.vga, CRTC_DATA_PORT, v)
                     /\ w.calls = << VgaCall("vga_ioport_write", CRTC_DATA_PORT, v) >>
    /\ (LastIs("read", DataOffset, 1)
            /\ s.vga.cr_index \notin {I2C_READ_INDEX, I2C_WRITE_INDEX}) =>
          /\ last.ret = vga_ioport_read(s.vga, CRTC_DATA_PORT).ret
          /\ last.calls = << VgaCall("vga_ioport_read", CRTC_DATA_PORT, 0) >>

\* with index 0 selected a read of the data port returned 0x10, the byte
\* written to that register before, while both lines were high
C6_Witness ==
    /\ LastIs("read", DataOffset, 1)
    /\ s.vga.cr_index = 0
    /\ last.ret = 16
    /\ Clock(s) /\ Data(s)

\* C7: with index 0x3e selected, two reads of the data port in a row return
\* the same value, and the read changes neither the lines nor the index.
C7_ReadIndexIdempotent ==
    /\ s.vga.cr_index = I2C_READ_INDEX =>
          LET r1 == WinRead(s, DataOffset, 1)
              r2 == WinRead(r1.s, DataOffset, 1)
          IN  /\ r1.ret = r2.ret
              /\ r1.s = s
              /\ r2.s = s
    /\ (LastIs("read", DataOffset, 1) /\ s.vga.cr_index = I2C_READ_INDEX) =>
          last.ret = WinRead(s, DataOffset, 1).ret

\* a read at the read index returned 8 (data alone high) and left it high
C7_Witness ==
    /\ LastIs("read", DataOffset, 1)
    /\ s.vga.cr_index = I2C_READ_INDEX
    /\ last.ret = 8
    /\ Data(s) /\ ~Clock(s)

\* C8: snapshot, reset, restore gives back the device state of the snapshot:
\* clock, data and the generic core's state.
C8_SaveResetLoadRoundTrip ==
    rt.stage = 3 => s = rt.at_save

\* a write returns nothing to the guest
WriteResult(w) == [ret |-> 0, s |-> w.s, calls |-> w.calls]

\* the access `last'` records, replayed from the state before it through the
\* other interface of the primary variant
ThroughOtherInterface(d, op) ==
    IF op.iface = "mmio"
    THEN IF op.op = "read"
         THEN portio_read(d, VGA_BASE + op.addr, op.size)
         ELSE WriteResult(portio_write(d, VGA_BASE + op.addr, op.val, op.size))
    ELSE IF op.op = "read"
         THEN mmio_read(d, PCI_RIVA128_IOPORT_OFFSET + op.addr, op.size)
         ELSE WriteResult(mmio_write(d, PCI_RIVA128_IOPORT_OFFSET + op.addr,
                                     op.val, op.size))

\* C9: on the primary variant an access at port 0x3c0 + k and the same
\* access at MMIO offset 0x400 + k return the same value and leave the same
\* state, the vendor indices included; checked on every access made to the
\* CRTC index and data ports through either interface.
C9_MmioEqualsPorts ==
    [][(last'.op \in {"read", "write"}
            /\ last'.addr \in {IndexOffset, DataOffset}) =>
          LET other == ThroughOtherInterface(s, last')
          IN  /\ last'.ret = other.ret
              /\ s' = other.s]_vars

\* a sub-write of a size-2 write reaches the data port under index 0x3f
WordHitsWriteIndex(d, off, lo) ==
    \/ off = IndexOffset /\ lo = I2C_WRITE_INDEX
    \/ off = DataOffset /\ d.vga.cr_index = I2C_WRITE_INDEX

\* C10: among register accesses the bus lines change only in a write to the
\* data port made while index 0x3f is selected: every read, every write to
\* another address and every write to the data port under another index
\* (0x3e included) leaves clock and data as they were.
C10_BusOnlyWrittenAtWriteIndex ==
    /\ AtDeviceState =>
          \A off \in WindowOffsets, size \in AccessSizes :
              WinRead(s, off, size).s.riva128 = s.riva128
    /\ AtDeviceState =>
          \A off \in WindowOffsets, v \in ProbeBytes :
              (off # DataOffset \/ s.vga.cr_index # I2C_WRITE_INDEX) =>
                  WinWrite(s, off, v, 1).s.riva128 = s.riva128
    /\ AtDeviceState =>
          \A off \in WindowOffsets, lo \in WordBytes, hi \in WordBytes :
              ~WordHitsWriteIndex(s, off, lo) =>
                  WinWrite(s, off, lo + 256 * hi, 2).s.riva128 = s.riva128

\* 0x00 was written to the data port under the read index 0x3e while both
\* lines were high: they still are
C10_Witness ==
    /\ LastIs("write", DataOffset, 1)
    /\ s.vga.cr_index = I2C_READ_INDEX
    /\ last.val = 0
    /\ Clock(s) /\ Data(s)

\* one call of the index/data mux: a byte access to the data port
MuxRead(d) == riva128_ioport_read(d, CRTC_DATA_PORT)

MuxWrite(d, v) == riva128_ioport_write(d, CRTC_DATA_PORT, v)

\* the call was handed to the generic core
Delegates(r) == r.calls # << >>

\* the call left the bus lines different from what they were
BusMutated(d, r) == r.s.riva128 # d.riva128

\* the byte asks for lines other than the present ones
AsksForChange(d, v) == (Bit(v, 5) = 1) # Clock(d) \/ (Bit(v, 4) = 1) # Data(d)

\* C11 as claimed: every read and every write of the data port either
\* mutates the bus lines or is delegated to the generic core, never both and
\* never neither (writes are probed with bytes that ask for a change of the
\* lines, so that a vendor write counts as a mutation).
C11_MutationXorDelegation ==
    /\ BusMutated(s, MuxRead(s)) # Delegates(MuxRead(s))
    /\ \A v \in ProbeBytes :
           AsksForChange(s, v) =>
               BusMutated(s, MuxWrite(s, v)) # Delegates(MuxWrite(s, v))

\* C11 as amended: every call of the mux is either a bus access (the read
\* under index 0x3e, which composes the byte from the lines and mutates
\* nothing, or the write under index 0x3f, which assigns both lines) or
\* exactly one delegation to the generic core, never both and never neither.
C11_BusAccessXorDelegation ==
    /\ AtDeviceState =>
          LET r == MuxRead(s)
          IN  /\ ~BusMutated(s, r)
              /\ IF s.vga.cr_index = I2C_READ_INDEX
                 THEN /\ ~Delegates(r)
                      /\ r.ret = Readback(s)
                      /\ r.s = s
                 ELSE r.calls = << VgaCall("vga_ioport_read", CRTC_DATA_PORT, 0) >>
    /\ AtDeviceState =>
          \A v \in Byte :
              LET w == MuxWrite(s, v)
              IN  IF s.vga.cr_index = I2C_WRITE_INDEX
                  THEN /\ ~Delegates(w)
                       /\ w.s.vga = s.vga
                       /\ Clock(w.s) = (Bit(v, 5) = 1)
                       /\ Data(w.s) = (Bit(v, 4) = 1)
                  ELSE /\ w.calls = << VgaCall("vga_ioport_write", CRTC_DATA_PORT, v) >>
                       /\ ~BusMutated(s, w)
    /\ LastIs("read", DataOffset, 1) =>
          /\ Len(last.calls) <= 1
          /\ (last.calls = << >>) <=> (s.vga.cr_index = I2C_READ_INDEX)
    /\ LastIs("write", DataOffset, 1) =>
          /\ Len(last.calls) <= 1
          /\ (last.calls = << >>) <=> (s.vga.cr_index = I2C_WRITE_INDEX)

\* 0x20 was written to the data port under index 0x3f: clock alone is high
\* and the generic core was not called
C11_Witness ==
    /\ LastIs("write", DataOffset, 1)
    /\ s.vga.cr_index = I2C_WRITE_INDEX
    /\ last.val = 32
    /\ last.calls = << >>
    /\ Clock(s) /\ ~Data(s)

\* one size-2 write of (v << 8) | 0x3f at the index port
OrderedWord(d, v) == WinWrite(d, IndexOffset, I2C_WRITE_INDEX + 256 * v, 2).s

\* the same two bytes in reversed order: v to the data port, then 0x3f to
\* the index port
ReversedBytes(d, v) ==
    WinWrite(WinWrite(d, DataOffset, v, 1).s, IndexOffset, I2C_WRITE_INDEX, 1).s

\* C12 as claimed: from every state whose selected index is not 0x3f and for
\* every byte v, the size-2 write of (v << 8) | 0x3f at the index port ends
\* in a state (bus lines and generic-core registers) different from the one
\* the two byte writes in reversed order end in.
C12_ReversedOrderAlwaysDiffers ==
    s.vga.cr_index # I2C_WRITE_INDEX =>
        \A v \in ProbeBytes : OrderedWord(s, v) # ReversedBytes(s, v)

\* C12 as amended: from a state whose selected index is not 0x3f, the size-2
\* write sets the lines from v and hands only the index byte to the core;
\* the reversed order leaves the lines alone and hands v to the core under
\* the old index.  The two results differ exactly when v asks for lines other
\* than the present ones or the register selected before does not already
\* hold v; otherwise they are the same state.
C12_ReversedOrderDiffersIff ==
    (AtDeviceState /\ s.vga.cr_index # I2C_WRITE_INDEX) =>
        \A v \in Byte :
            LET o == OrderedWord(s, v)
                r == ReversedBytes(s, v)
            IN  /\ Clock(o) = (Bit(v, 5) = 1)
                /\ Data(o) = (Bit(v, 4) = 1)
                /\ o.vga = vga_ioport_write(s.vga, CRTC_INDEX_PORT, I2C_WRITE_INDEX)
                /\ r.riva128 = s.riva128
                /\ r.vga = vga_ioport_write(
                               vga_ioport_write(s.vga, CRTC_DATA_PORT, v),
                               CRTC_INDEX_PORT, I2C_WRITE_INDEX)
                /\ (o # r) <=> \/ AsksForChange(s, v)
                               \/ ArrayGet(s.vga.cr, s.vga.cr_index) # v

\* the word 0x103f was written at the index port: index 0x3f is selected,
\* data is high, clock is low, and only the index byte reached the core
C12_Witness ==
    /\ LastIs("write", IndexOffset, 2)
    /\ last.val = I2C_WRITE_INDEX + 256 * 16
    /\ last.calls = << VgaCall("vga_ioport_write", CRTC_INDEX_PORT, I2C_WRITE_INDEX) >>
    /\ s.vga.cr_index = I2C_WRITE_INDEX
    /\ Data(s) /\ ~Clock(s)

\* device d with the bus lines forced to the given levels
WithLines(d, sda, scl) == [d EXCEPT !.riva128.i2c = [sda |-> sda, scl |-> scl]]

\* C13: index 0x3e is special only for reads and index 0x3f only for writes:
\* a write of v to the data port under 0x3e is handed to the generic core
\* with the same address and byte and leaves the lines alone; a read of the
\* data port under 0x3f returns what the generic core returns for that index,
\* whatever clock and data are.
C13_VendorIndicesDirectional ==
    /\ (AtDeviceState /\ s.vga.cr_index = I2C_READ_INDEX) =>
          \A v \in Byte :
              LET w == MuxWrite(s, v)
              IN  /\ w.calls = << VgaCall("vga_ioport_write", CRTC_DATA_PORT, v) >>
                  /\ w.s.vga = vga_ioport_write(s.vga, CRTC_DATA_PORT, v)
                  /\ w.s.riva128 = s.riva128
    /\ (AtDeviceState /\ s.vga.cr_index = I2C_WRITE_INDEX) =>
          LET r == MuxRead(s)
          IN  /\ r.calls = << VgaCall("vga_ioport_read", CRTC_DATA_PORT, 0) >>
              /\ r.ret = vga_ioport_read(s.vga, CRTC_DATA_PORT).ret
              /\ r.s.riva128 = s.riva128
              /\ \A sda \in BOOLEAN, scl \in BOOLEAN :
                     MuxRead(WithLines(s, sda, scl)).ret = r.ret
    /\ (LastIs("write", DataOffset, 1) /\ s.vga.cr_index = I2C_READ_INDEX) =>
          last.calls = << VgaCall("vga_ioport_write", CRTC_DATA_PORT, last.val) >>
    /\ (LastIs("read", DataOffset, 1) /\ s.vga.cr_index = I2C_WRITE_INDEX) =>
          /\ last.calls = << VgaCall("vga_ioport_read", CRTC_DATA_PORT, 0) >>
          /\ last.ret = vga_ioport_read(s.vga, CRTC_DATA_PORT).ret

\* 0x10 was written to the data port under index 0x3e while both lines were
\* high: the byte went to the generic core and clock is still high
C13_Witness ==
    /\ LastIs("write", DataOffset, 1)
    /\ s.vga.cr_index = I2C_READ_INDEX
    /\ last.val = 16
    /\ last.calls = << VgaCall("vga_ioport_write", CRTC_DATA_PORT, 16) >>
    /\ Clock(s) /\ Data(s)

\* the byte read back at the read index from device d: index 0x3e is
\* selected through the index port, then the data port is read
ReadBackAtReadIndex(d) ==
    WinRead(WinWrite(d, IndexOffset, I2C_READ_INDEX, 1).s, DataOffset, 1).ret

\* C14: with index 0x3f selected, size-1 writes b1, b2 to the data port
\* leave the index at 0x3f and every generic-core register as it was after
\* each step, and leave clock = bit 5 and data = bit 4 of the last byte
\* written; 0x30 gives true/true and a read-back of 0x0c, a following 0x00
\* gives false/false and a read-back of 0x00.
C14_BusReflectsLastByte ==
    /\ (AtDeviceState /\ s.vga.cr_index = I2C_WRITE_INDEX) =>
          \A b1 \in ProbeBytes, b2 \in ProbeBytes :
              LET w1 == WinWrite(s, DataOffset, b1, 1)
                  w2 == WinWrite(w1.s, DataOffset, b2, 1)
              IN  /\ w1.s.vga = s.vga
                  /\ w2.s.vga = s.vga
                  /\ w1.calls = << >>
                  /\ w2.calls = << >>
                  /\ Clock(w1.s) = (Bit(b1, 5) = 1)
                  /\ Data(w1.s) = (Bit(b1, 4) = 1)
                  /\ Clock(w2.s) = (Bit(b2, 5) = 1)
                  /\ Data(w2.s) = (Bit(b2, 4) = 1)
                  /\ ReadBackAtReadIndex(w2.s) = ExpectedReadback(b2)
    /\ (AtDeviceState /\ s.vga.cr_index = I2C_WRITE_INDEX) =>
          LET hi == WinWrite(s, DataOffset, 48, 1).s
              lo == WinWrite(hi, DataOffset, 0, 1).s
          IN  /\ Clock(hi) /\ Data(hi)
              /\ ReadBackAtReadIndex(hi) = 12
              /\ ~Clock(lo) /\ ~Data(lo)
              /\ ReadBackAtReadIndex(lo) = 0
    /\ (LastIs("write", DataOffset, 1) /\ s.vga.cr_index = I2C_WRITE_INDEX) =>
          /\ last.calls = << >>
          /\ Readback(s) = ExpectedReadback(last.val)

\* 0x10 was written to the data port under index 0x3f: data alone is high,
\* whatever the lines were before, and the generic core was not called
C14_Witness ==
    /\ LastIs("write", DataOffset, 1)
    /\ s.vga.cr_index = I2C_WRITE_INDEX
    /\ last.val = 16
    /\ last.calls = << >>
    /\ Data(s) /\ ~Clock(s)

\* the last operation was a direct call of a handler
DecoderAt(op, off, size) ==
    /\ last.op = op
    /\ last.iface = "decoder"
    /\ last.addr = off
    /\ last.size = size

\* the last port of the window, 0x3df, and the first address past it, 0x3e0
LastOffset == PCI_RIVA128_IOPORT_SIZE - 1

PastWindowPort == VGA_BASE + PCI_RIVA128_IOPORT_SIZE

\* every reachable s is also the state after a byte read of port 0x3df,
\* which no handler decodes: checks that read only s are evaluated there
AtDecoderState == DecoderAt("read", LastOffset, 1)

\* answer of a read no case label decodes, and of a write none decodes
UnknownRead(d) == [ret |-> 0, s |-> d, calls |-> << >>]

UnknownWrite(d) == [s |-> d, calls |-> << >>]

\* C15: the halves of a size-2 access are routed one by one.  At the last
\* offset of the window the high half goes to 0x3e0, past the 32 ports, and
\* is unknown: bits 8-15 of the read are 0, the high byte of the write is
\* dropped, nothing changes.  A size-2 write at the data port applies its
\* low byte through the index mux and drops its high byte (0x3d6); a size-2
\* read there returns what the byte read of 0x3d5 returns.
C15_HalvesRoutedIndependently ==
    /\ AtDecoderState =>
          /\ riva128_ioport_read(s, PastWindowPort) = UnknownRead(s)
          /\ pci_riva128_ioport_read(s, LastOffset, 2) = UnknownRead(s)
          /\ \A v \in Byte :
                 riva128_ioport_write(s, PastWindowPort, v) = UnknownWrite(s)
          /\ \A lo \in WordBytes, hi \in WordBytes :
                 pci_riva128_ioport_write(s, LastOffset, lo + 256 * hi, 2)
                     = UnknownWrite(s)
    /\ AtDecoderState =>
          /\ \A lo \in Byte, hi \in WordBytes :
                 pci_riva128_ioport_write(s, DataOffset, lo + 256 * hi, 2)
                     = pci_riva128_ioport_write(s, DataOffset, lo, 1)
          /\ pci_riva128_ioport_read(s, DataOffset, 2)
                 = pci_riva128_ioport_read(s, DataOffset, 1)
    /\ AtDecoderState =>
          \A off \in WindowOffsets :
              LET lo == riva128_ioport_read(s, VGA_BASE + off)
                  hi == riva128_ioport_read(lo.s, VGA_BASE + off + 1)
                  r  == pci_riva128_ioport_read(s, off, 2)
              IN  /\ r.ret % 256 = lo.ret
                  /\ r.ret \div 256 = hi.ret
                  /\ r.calls = lo.calls \o hi.calls
    /\ DecoderAt("read", LastOffset, 2) =>
          /\ last.ret = 0
          /\ last.calls = << >>
    /\ DecoderAt("write", LastOffset, 2) => last.calls = << >>
    /\ (DecoderAt("write", DataOffset, 2) /\ s.vga.cr_index = I2C_WRITE_INDEX) =>
          /\ last.calls = << >>
          /\ Readback(s) = ExpectedReadback(last.val % 256)

\* the word 0x3030 was written at the last offset of the window while index
\* 0x3f was selected: neither byte reached the core or the lines
C15_Witness ==
    /\ DecoderAt("write", LastOffset, 2)
    /\ last.val = 48 + 256 * 48
    /\ last.calls = << >>
    /\ s.vga.cr_index = I2C_WRITE_INDEX
    /\ ~Clock(s) /\ ~Data(s)
    /\ s.vga.reg = ZeroArray

\* widths the switch statements of the two handlers have no case for
OtherWidths == {0, 3, 4, 8}

\* C16: called with a width other than 1 or 2, the read handler returns 0
\* and the write handler changes neither the bus lines nor the generic core
\* and calls nothing, at every offset of the window and in every reachable
\* state.
C16_OtherWidthsDefault ==
    /\ AtDecoderState =>
          \A off \in WindowOffsets, size \in OtherWidths :
              /\ pci_riva128_ioport_read(s, off, size) = UnknownRead(s)
              /\ \A lo \in WordBytes, hi \in WordBytes :
                     pci_riva128_ioport_write(s, off, lo + 256 * hi, size)
                         = UnknownWrite(s)
    /\ (last.iface = "decoder" /\ last.size \notin {1, 2}) =>
          /\ last.ret = 0
          /\ last.calls = << >>

\* 0x30 was written with width 4 at the data port while index 0x3f was
\* selected: the lines are still low and nothing was called
C16_Witness ==
    /\ DecoderAt("write", DataOffset, 4)
    /\ last.val = 48
    /\ last.calls = << >>
    /\ s.vga.cr_index = I2C_WRITE_INDEX
    /\ ~Clock(s) /\ ~Data(s)

====
